---- MODULE Spec2Model ----
(***************************************************************************)
(* Model of the jolt_zkml crate of rugdetector: the RugDetectorZKML        *)
(* library type (src/jolt_zkml/src/lib.rs) and the jolt_zkml_cli process   *)
(* (src/jolt_zkml/src/main.rs).                                            *)
(*                                                                         *)
(* Three specifications share the module:                                  *)
(*   Spec     - one caller driving the library API (new, preprocess,       *)
(*              prove, verify) in any order;                               *)
(*   SpecCli  - successive runs of the command-line process;               *)
(*   SpecConc - several threads inside prove on one shared instance.       *)
(***************************************************************************)
EXTENDS Integers, Sequences, FiniteSets, TLC

VARIABLES
    zkml,            \* Option<RugDetectorZKML>: <<>> or <<[model_path |-> p]>>
    preprocessCalls, \* number of preprocess() calls made on the instance
    last,            \* the most recent library call and what it returned
    verifyLog,       \* Option: an earlier verify call, kept for comparison
    proved,          \* Option: the most recent prove call on the instance
    run,             \* the most recent run of the command-line process
    preprocessRuns,  \* per model path: preprocess() executions over all runs
    pc,              \* per thread: position inside prove
    feat,            \* per thread: the features argument of its prove call
    res              \* per thread: the value its prove call returned

vars == <<zkml, preprocessCalls, last, verifyLog, proved, run, preprocessRuns, pc, feat, res>>

libVars == <<zkml, preprocessCalls, last, verifyLog, proved>>
cliVars == <<run, preprocessRuns>>
concVars == <<pc, feat, res>>

(***************************************************************************)
(* Bounds and input sets                                                   *)
(***************************************************************************)
FeatureCount == 60

MaxLen == 61        \* longest witness tried
MaxCalls == 2       \* cap on the preprocess counters
MaxBytes == 1       \* longest byte string handed to verify
NumThreads == 2     \* threads proving concurrently

Paths == {"model.onnx", "missing.onnx"}

\* The model files that exist on disk and hold a decodable model.
ModelFiles == {"model.onnx"}

WitnessLens == {3} \cup ((FeatureCount - 1) .. MaxLen)

\* The all-zero witness of every length tried, and one 60-element witness
\* with other values (negative ones included).
Witnesses ==
    {[i \in 1 .. n |-> 0] : n \in WitnessLens}
        \cup {[i \in 1 .. FeatureCount |-> i - 30]}

ByteStrings == {[i \in 1 .. n |-> 171] : n \in 0 .. MaxBytes}

Threads == 1 .. NumThreads

(***************************************************************************)
(* ZKMLError, its Display implementation, and Result values                *)
(***************************************************************************)
NotPreprocessed == [variant |-> "NotPreprocessed", payload |-> ""]
NotImplemented == [variant |-> "NotImplemented", payload |-> ""]
InvalidInput(msg) == [variant |-> "InvalidInput", payload |-> msg]
TensorError(msg) == [variant |-> "TensorError", payload |-> msg]
VerificationError(msg) == [variant |-> "VerificationError", payload |-> msg]

Display(e) ==
    CASE e.variant = "NotPreprocessed" -> "Model not preprocessed"
      [] e.variant = "NotImplemented" ->
            "Jolt Atlas integration not built yet (requires network to fetch dependencies)"
      [] e.variant = "InvalidInput" -> "Invalid input: " \o e.payload
      [] e.variant = "TensorError" -> "Tensor error: " \o e.payload
      [] e.variant = "VerificationError" -> "Verification failed: " \o e.payload

Ok(v) == [ok |-> TRUE, variant |-> v.variant, payload |-> v.payload]
Err(e) == [ok |-> FALSE, variant |-> e.variant, payload |-> e.payload]

\* The unit-like struct ProofResult {} and the two values of Result<bool, _>.
ProofResult == [variant |-> "ProofResult", payload |-> ""]
Bool(b) == [variant |-> "bool", payload |-> IF b THEN "true" ELSE "false"]

NoResult == [ok |-> TRUE, variant |-> "unit", payload |-> ""]

(***************************************************************************)
(* RugDetectorZKML                                                         *)
(***************************************************************************)
new(model_path) == [model_path |-> model_path]

\* The two lines preprocess() writes to standard error. The source starts
\* the first with the Unicode warning sign, written here "[warning sign]".
PreprocessWarning ==
    << "[warning sign]  Preprocessing requires Jolt Atlas dependencies",
       "    See JOLT_ATLAS_INTEGRATION.md for build instructions" >>

\* preprocess(&mut self): leaves self as it is, writes the warning.
preprocess(self) == [self |-> self, stderr |-> PreprocessWarning]

prove_LengthBelow(self, features) ==
    IF Len(features) < FeatureCount
    THEN Err(InvalidInput("Expected 60 features, got " \o ToString(Len(features))))
    ELSE Err(NotImplemented)

\* prove(&self, features): the length check, then the placeholder error.
prove(self, features) ==
    IF Len(features) # FeatureCount
    THEN Err(InvalidInput("Expected 60 features, got " \o ToString(Len(features))))
    ELSE Err(NotImplemented)

verify_NeedsInstance(proof, verifying_key, output) ==
    IF preprocessCalls = 0 THEN Err(NotPreprocessed) ELSE Err(NotImplemented)

\* verify(_proof, _verifying_key, _output): an associated function, no self.
verify(proof, verifying_key, output) == Err(NotImplemented)

(***************************************************************************)
(* Spec: one caller driving the library                                    *)
(***************************************************************************)
NoCall ==
    [op |-> "none", features |-> <<>>, proof |-> <<>>, verifying_key |-> <<>>,
     output |-> <<>>, preprocessed |-> FALSE, result |-> NoResult]

NoRun ==
    [ran |-> FALSE, argv |-> <<>>, cmd |-> "", model |-> "",
     stdin |-> [kind |-> "text", text |-> "", features |-> <<>>],
     stdout |-> <<>>, stderr |-> <<>>, exit |-> 0, preprocessed |-> FALSE]

IdleThreads ==
    /\ pc = [t \in Threads |-> "idle"]
    /\ feat = [t \in Threads |-> <<>>]
    /\ res = [t \in Threads |-> NoResult]

IdleCli ==
    /\ run = NoRun
    /\ preprocessRuns = [p \in Paths |-> 0]

Init ==
    /\ zkml = <<>>
    /\ preprocessCalls = 0
    /\ last = NoCall
    /\ verifyLog = <<>>
    /\ proved = <<>>
    /\ IdleCli
    /\ IdleThreads

New(model_path) ==
    /\ zkml' = <<new(model_path)>>
    /\ preprocessCalls' = 0
    /\ last' = [NoCall EXCEPT !.op = "new"]
    /\ proved' = <<>>
    /\ UNCHANGED <<verifyLog, cliVars, concVars>>

Preprocess ==
    /\ zkml # <<>>
    /\ preprocessCalls < MaxCalls
    /\ zkml' = <<preprocess(zkml[1]).self>>
    /\ preprocessCalls' = preprocessCalls + 1
    /\ last' = [NoCall EXCEPT !.op = "preprocess", !.preprocessed = TRUE]
    /\ UNCHANGED <<verifyLog, proved, cliVars, concVars>>

Prove(features) ==
    LET call == [NoCall EXCEPT !.op = "prove",
                               !.features = features,
                               !.preprocessed = (preprocessCalls > 0),
                               !.result = prove(zkml[1], features)]
    IN  /\ zkml # <<>>
        /\ last' = call
        /\ proved' = <<call>>
        /\ UNCHANGED <<zkml, preprocessCalls, verifyLog, cliVars, concVars>>

\* verify is called; the observer may keep this call as the earlier call
\* that later ones are compared with.
Verify(proof, verifying_key, output) ==
    LET call == [NoCall EXCEPT !.op = "verify",
                               !.proof = proof,
                               !.verifying_key = verifying_key,
                               !.output = output,
                               !.preprocessed = (preprocessCalls > 0),
                               !.result = verify(proof, verifying_key, output)]
    IN  /\ last' = call
        /\ verifyLog' \in {verifyLog, <<call>>}
        /\ UNCHANGED <<zkml, preprocessCalls, proved, cliVars, concVars>>

Next ==
    \/ \E p \in Paths : New(p)
    \/ Preprocess
    \/ \E w \in Witnesses : Prove(w)
    \/ \E p \in ByteStrings, k \in ByteStrings, o \in ByteStrings : Verify(p, k, o)

Spec == Init /\ [][Next]_vars

(***************************************************************************)
(* Properties of the library, checked under Spec                           *)
(***************************************************************************)

\* C1: whatever the lifecycle state of the instance, prove on a witness whose
\* length is not 60 returns Err(InvalidInput(_)): no proof, and the result
\* is the one the length check (the first statement of prove) produces.
C1_WrongLengthIsInvalidInput ==
    (last.op = "prove" /\ Len(last.features) # FeatureCount) =>
        /\ ~last.result.ok
        /\ last.result =
              Err(InvalidInput("Expected 60 features, got " \o ToString(Len(last.features))))

C1_Witness ==
    /\ last.op = "prove"
    /\ Len(last.features) = 3
    /\ last.preprocessed
    /\ last.result.variant = "InvalidInput"

\* C2: after preprocess, prove on a 60-element witness returns Ok (a proof
\* with its output and verifying key).
C2_ProveAfterPreprocessSucceeds ==
    (last.op = "prove" /\ last.preprocessed /\ Len(last.features) = FeatureCount) =>
        last.result.ok

\* C3: prove on a 60-element witness before any preprocess returns
\* Err(NotPreprocessed).
C3_ProveBeforePreprocessIsNotPreprocessed ==
    (last.op = "prove" /\ ~last.preprocessed /\ Len(last.features) = FeatureCount) =>
        last.result = Err(NotPreprocessed)

\* The outputs a prove call handed back to its caller: none when it failed.
ReturnedOutputs(call) == IF call.result.ok THEN {call.result.payload} ELSE {}

\* C4: once the instance was preprocessed and prove ran on a 60-element
\* witness, verify with an output other than the one prove returned answers
\* Ok(false): a boolean, not an error and not true.
C4_OtherOutputIsRejected ==
    ( /\ last.op = "verify"
      /\ proved # <<>>
      /\ proved[1].preprocessed
      /\ Len(proved[1].features) = FeatureCount
      /\ last.output \notin ReturnedOutputs(proved[1]) ) =>
        last.result = Ok(Bool(FALSE))

\* C5: verify on a truncated (empty) proof byte string fails with a
\* deserialization error of its own, neither Ok(false) nor VerificationError.
C5_GarbageIsDeserializationError ==
    (last.op = "verify" /\ last.proof = <<>>) =>
        /\ ~last.result.ok
        /\ last.result.variant = "DeserializationError"

\* C9: two verify calls with the same three byte strings return the same
\* answer, whatever the instance's lifecycle state at each call and whatever
\* ran between them.
C9_VerifyIsDeterministic ==
    ( /\ last.op = "verify"
      /\ verifyLog # <<>>
      /\ verifyLog[1].proof = last.proof
      /\ verifyLog[1].verifying_key = last.verifying_key
      /\ verifyLog[1].output = last.output ) =>
        last.result = verifyLog[1].result

C9_Witness ==
    /\ last.op = "verify"
    /\ verifyLog # <<>>
    /\ verifyLog[1].proof = last.proof
    /\ verifyLog[1].verifying_key = last.verifying_key
    /\ verifyLog[1].output = last.output
    /\ last.proof # <<>>
    /\ ~verifyLog[1].preprocessed
    /\ last.preprocessed
    /\ proved # <<>>
    /\ last.result = verifyLog[1].result

(***************************************************************************)
(* jolt_zkml_cli: the command line, standard input, the handlers, main     *)
(***************************************************************************)
Subcommands == {"preprocess", "prove", "verify", "version"}

\* Words that Cli::parse() does not take as the value of --model: the empty
\* word and the words it reads as a flag, an option or the -- separator
\* ("a value is required"), and other words starting with a dash that name
\* no argument of the subcommand ("unexpected argument").
NoValueWords == {"", "--help", "-h", "--", "--model"}

UnexpectedWords == {"-x", "-1", "-V"}

\* Command lines (without the program name) that end inside Cli::parse():
\* a required --model left out or given no usable value, --help, --version.
ParseExitArgv ==
    {<<"prove">>, <<"preprocess">>, <<"--help">>, <<"--version">>}
        \cup {<<c, "--model", v>> : c \in {"preprocess", "prove"},
                                    v \in NoValueWords \cup UnexpectedWords}

TryHelp == "For more information, try '--help'."

HelpText ==
    << "Jolt Atlas zkML CLI for RugDetector",
       "",
       "Usage: jolt_zkml_cli <COMMAND>",
       "",
       "Commands:",
       "  preprocess  Preprocess the ONNX model (one-time setup)",
       "  prove       Generate zkSNARK proof for inference",
       "  verify      Verify a zkSNARK proof",
       "  version     Get version information",
       "  help        Print this message or the help of the given subcommand(s)",
       "",
       "Options:",
       "  -h, --help     Print help",
       "  -V, --version  Print version" >>

\* What Cli::parse() does with a command line: it returns the Commands
\* value, or prints and ends the process itself (exit 0 for --help and
\* --version, exit 2 for a command line the derive declarations reject).
Parsed(command, model) ==
    [ok |-> TRUE, command |-> command, model |-> model,
     stdout |-> <<>>, stderr |-> <<>>, exit |-> 0]

ParseExit(stdout, stderr, exit) ==
    [ok |-> FALSE, command |-> "", model |-> "",
     stdout |-> stdout, stderr |-> stderr, exit |-> exit]

Cli_parse(argv) ==
    CASE argv = <<"--help">> -> ParseExit(HelpText, <<>>, 0)
      [] argv = <<"--version">> -> ParseExit(<<"jolt_zkml_cli 0.1.0">>, <<>>, 0)
      [] argv \in {<<"verify">>, <<"version">>} -> Parsed(argv[1], "")
      [] Len(argv) = 1 /\ argv[1] \in {"preprocess", "prove"} ->
            ParseExit(<<>>,
                      << "error: the following required arguments were not provided:",
                         "  --model <MODEL>",
                         "",
                         "Usage: jolt_zkml_cli " \o argv[1] \o " --model <MODEL>",
                         "",
                         TryHelp >>,
                      2)
      [] Len(argv) = 3 /\ argv[1] \in {"preprocess", "prove"}
            /\ argv[2] = "--model" /\ argv[3] \in NoValueWords ->
            ParseExit(<<>>,
                      << "error: a value is required for '--model <MODEL>' but none was supplied",
                         "",
                         TryHelp >>,
                      2)
      [] Len(argv) = 3 /\ argv[1] \in {"preprocess", "prove"}
            /\ argv[2] = "--model" /\ argv[3] \in UnexpectedWords ->
            ParseExit(<<>>,
                      << "error: unexpected argument '" \o argv[3] \o "' found",
                         "",
                         "Usage: jolt_zkml_cli " \o argv[1] \o " --model <MODEL>",
                         "",
                         TryHelp >>,
                      2)
      [] Len(argv) = 3 /\ argv[1] \in {"preprocess", "prove"}
            /\ argv[2] = "--model" /\ argv[3] # ""
            /\ (argv[3] = "-" \/ SubSeq(argv[3], 1, 1) # "-") ->
            Parsed(argv[1], argv[3])

\* What a run finds on standard input: bytes that are not UTF-8, a text
\* that is not the expected JSON, or the document {"features": [...]} with
\* the given i32 values.
Stdin(kind, text, features) == [kind |-> kind, text |-> text, features |-> features]

\* The texts tried that are not the expected document. (A text whose serde
\* message holds a backquote, such as {} with its "missing field" message,
\* cannot be written as a TLA+ string and is not among them.)
BadTexts == {"", "  \n", "garbage", "null", "{\"features\": \"x\"}"}

StdinInputs ==
    {Stdin("bytes", "", <<>>)}
        \cup {Stdin("text", t, <<>>) : t \in BadTexts}
        \cup {Stdin("features", "", w) : w \in Witnesses}

\* io::stdin().read_to_string(&mut input)
read_to_string(stdin) ==
    IF stdin.kind = "bytes"
    THEN [ok |-> FALSE, error |-> "stream did not contain valid UTF-8"]
    ELSE [ok |-> TRUE, error |-> ""]

ParseError(error) == [ok |-> FALSE, error |-> error, features |-> <<>>]

\* serde_json::from_str::<ProveInput>(&input), on the inputs of StdinInputs.
from_str(stdin) ==
    CASE stdin.kind = "features" -> [ok |-> TRUE, error |-> "", features |-> stdin.features]
      [] stdin.kind = "text" /\ stdin.text = "" ->
            ParseError("EOF while parsing a value at line 1 column 0")
      [] stdin.kind = "text" /\ stdin.text = "  \n" ->
            ParseError("EOF while parsing a value at line 2 column 0")
      [] stdin.kind = "text" /\ stdin.text = "garbage" ->
            ParseError("expected value at line 1 column 1")
      [] stdin.kind = "text" /\ stdin.text = "null" ->
            ParseError("invalid type: null, expected struct ProveInput at line 1 column 4")
      [] stdin.kind = "text" /\ stdin.text = "{\"features\": \"x\"}" ->
            ParseError("invalid type: string \"x\", expected a sequence at line 1 column 16")

NotImplementedMessage == "Not implemented: requires network to fetch dependencies"

\* What a handler did: its writes to the two streams, its Result, and
\* whether it ran preprocess().
Handled(stdout, stderr, ok, error, preprocessed) ==
    [stdout |-> stdout, stderr |-> stderr, ok |-> ok, error |-> error,
     preprocessed |-> preprocessed]

StatusJson == "{\"status\": \"preprocessed\"}"

handle_preprocess(model) ==
    LET pp == preprocess(new(model))
    IN  Handled(<<StatusJson>>, pp.stderr, TRUE, "", TRUE)

handle_prove(model, stdin) ==
    LET rd == read_to_string(stdin)
        prove_input == from_str(stdin)
        pp == preprocess(new(model))
        r == prove(pp.self, prove_input.features)
    IN  IF ~rd.ok THEN Handled(<<>>, <<>>, FALSE, rd.error, FALSE)
        ELSE IF ~prove_input.ok THEN Handled(<<>>, <<>>, FALSE, prove_input.error, FALSE)
        ELSE IF Len(prove_input.features) # FeatureCount
        THEN Handled(<<>>, <<>>, FALSE,
                     "Expected 60 features, got " \o ToString(Len(prove_input.features)),
                     FALSE)
        ELSE IF r.ok
        THEN Handled(<<>>,
                     pp.stderr \o
                       <<"[warning sign]  Proof generation requires Jolt Atlas dependencies">>,
                     FALSE, NotImplementedMessage, TRUE)
        ELSE Handled(<<>>, pp.stderr, FALSE, Display(r), TRUE)

handle_verify(stdin) ==
    LET rd == read_to_string(stdin)
    IN  IF ~rd.ok THEN Handled(<<>>, <<>>, FALSE, rd.error, FALSE)
        ELSE Handled(<<>>,
                     <<"[warning sign]  Verification requires Jolt Atlas dependencies">>,
                     FALSE, NotImplementedMessage, FALSE)

VersionJson ==
    << "{",
       "  \"name\": \"jolt_zkml_cli\",",
       "  \"version\": \"0.1.0\",",
       "  \"description\": \"Jolt Atlas zkML CLI for RugDetector\",",
       "  \"status\": \"skeleton - requires dependencies\",",
       "  \"dependencies_required\": [",
       "    \"https://github.com/ICME-Lab/jolt-atlas\",",
       "    \"https://github.com/ICME-Lab/zkml-jolt\"",
       "  ]",
       "}" >>

handle_version == Handled(VersionJson, <<>>, TRUE, "", FALSE)

\* The printable ASCII characters serde_json writes as they are (the
\* backquote, which a TLA+ string cannot hold, is left out).
PrintableChars ==
    LET p == " !#$%&'()+,-./*0123456789:;<=>?@ABCDEFGHIJKLMNOPQRSTUVWXYZ[]^_abcdefghijklmnopqrstuvwxyz{|}~"
    IN  {SubSeq(p, i, i) : i \in 1 .. Len(p)}

\* serde_json's string escapes, on the quote, the backslash, the control
\* characters a TLA+ escape can name, and the printable characters. Other
\* control characters (which serde_json writes as \b or \u00XX) are not
\* covered.
EscapeChar(c) ==
    CASE c = "\"" -> "\\\""
      [] c = "\\" -> "\\\\"
      [] c = "\n" -> "\\n"
      [] c = "\r" -> "\\r"
      [] c = "\t" -> "\\t"
      [] c = "\f" -> "\\f"
      [] c \in PrintableChars -> c

RECURSIVE EscapeJson(_)
EscapeJson(s) ==
    IF Len(s) = 0 THEN ""
    ELSE EscapeChar(SubSeq(s, 1, 1)) \o EscapeJson(SubSeq(s, 2, Len(s)))

\* serde_json::to_string(&ErrorOutput { error })
ErrorJson(error) == "{\"error\":\"" \o EscapeJson(error) \o "\"}"

\* main: Cli::parse(), dispatch on the subcommand; on Err print the error
\* object to standard error and exit with code 1.
main(argv, stdin) ==
    LET cli == Cli_parse(argv)
        h == CASE cli.command = "preprocess" -> handle_preprocess(cli.model)
               [] cli.command = "prove" -> handle_prove(cli.model, stdin)
               [] cli.command = "verify" -> handle_verify(stdin)
               [] cli.command = "version" -> handle_version
    IN  IF ~cli.ok
        THEN [ran |-> TRUE, argv |-> argv, cmd |-> "", model |-> "", stdin |-> stdin,
              stdout |-> cli.stdout, stderr |-> cli.stderr, exit |-> cli.exit,
              preprocessed |-> FALSE]
        ELSE [ran |-> TRUE, argv |-> argv, cmd |-> cli.command, model |-> cli.model,
              stdin |-> stdin,
              stdout |-> h.stdout,
              stderr |-> IF h.ok THEN h.stderr ELSE h.stderr \o <<ErrorJson(h.error)>>,
              exit |-> IF h.ok THEN 0 ELSE 1,
              preprocessed |-> h.preprocessed]

(***************************************************************************)
(* SpecCli: successive runs of the process                                 *)
(***************************************************************************)
NoStdin == Stdin("text", "", <<>>)

\* The preprocess counters after a run.
Counted(r) ==
    IF r.preprocessed
    THEN [preprocessRuns EXCEPT ![r.model] = @ + 1]
    ELSE preprocessRuns

RunPreprocess(model) ==
    LET r == main(<<"preprocess", "--model", model>>, NoStdin)
    IN  /\ preprocessRuns[model] < MaxCalls
        /\ run' = r
        /\ preprocessRuns' = Counted(r)
        /\ UNCHANGED <<libVars, concVars>>

RunProve(model, stdin) ==
    LET r == main(<<"prove", "--model", model>>, stdin)
    IN  /\ r.preprocessed => preprocessRuns[model] < MaxCalls
        /\ run' = r
        /\ preprocessRuns' = Counted(r)
        /\ UNCHANGED <<libVars, concVars>>

RunVerify(stdin) ==
    /\ run' = main(<<"verify">>, stdin)
    /\ UNCHANGED <<preprocessRuns, libVars, concVars>>

RunVersion ==
    /\ run' = main(<<"version">>, NoStdin)
    /\ UNCHANGED <<preprocessRuns, libVars, concVars>>

\* A run that ends inside Cli::parse(): no handler is reached.
RunParseExit(argv) ==
    /\ run' = main(argv, NoStdin)
    /\ UNCHANGED <<preprocessRuns, libVars, concVars>>

NextCli ==
    \/ \E m \in Paths : RunPreprocess(m)
    \/ \E m \in Paths, i \in StdinInputs : RunProve(m, i)
    \/ \E i \in StdinInputs : RunVerify(i)
    \/ RunVersion
    \/ \E argv \in ParseExitArgv : RunParseExit(argv)

SpecCli == Init /\ [][NextCli]_vars

(***************************************************************************)
(* Properties of the process, checked under SpecCli                        *)
(***************************************************************************)

\* Every message this program can put into an error object, and the error
\* objects themselves.
ErrorMessages ==
    {"stream did not contain valid UTF-8",
     NotImplementedMessage,
     Display(NotPreprocessed), Display(NotImplemented)}
        \cup {from_str(Stdin("text", t, <<>>)).error : t \in BadTexts}
        \cup {"Expected 60 features, got " \o ToString(n) : n \in 0 .. MaxLen + 1}
        \cup {Display(InvalidInput("Expected 60 features, got " \o ToString(n))) :
                n \in 0 .. MaxLen + 1}

ErrorObjects == {ErrorJson(m) : m \in ErrorMessages}

ErrorLines(stream) == {i \in DOMAIN stream : stream[i] \in ErrorObjects}

SuccessOutputs == {<<StatusJson>>, VersionJson}

\* C6: a run of any of the four subcommands ends either with exit code 0 and
\* the success JSON on standard output, or with a non-zero exit code, exactly
\* one error object on standard error and nothing on standard output.
C6_ExitCodeMatchesStreams ==
    (run.ran /\ run.argv[1] \in Subcommands) =>
        \/ /\ run.exit = 0
           /\ run.stdout \in SuccessOutputs
           /\ ErrorLines(run.stderr) = {}
        \/ /\ run.exit # 0
           /\ run.stdout = <<>>
           /\ Cardinality(ErrorLines(run.stderr)) = 1
           /\ run.stderr[Len(run.stderr)] \in ErrorObjects

\* C7: a prove request for a model that was already preprocessed does not
\* run the preprocessing again.
C7_NeverRegeneratedPerProof ==
    [][(run'.cmd = "prove" /\ preprocessRuns[run'.model] >= 1)
          => preprocessRuns'[run'.model] = preprocessRuns[run'.model]]_vars

\* C8: the preprocess subcommand on a model file that is missing (or cannot
\* be decoded) exits non-zero and does not report the preprocessed status.
C8_MissingModelIsNotPreprocessed ==
    (run.cmd = "preprocess" /\ run.model \notin ModelFiles) =>
        /\ run.exit # 0
        /\ run.stdout = <<>>

(***************************************************************************)
(* SpecConc: threads calling prove(&self, ..) on one preprocessed instance *)
(***************************************************************************)
SharedModel == "model.onnx"

InitConc ==
    /\ zkml = <<preprocess(new(SharedModel)).self>>
    /\ preprocessCalls = 1
    /\ last = NoCall
    /\ verifyLog = <<>>
    /\ proved = <<>>
    /\ IdleCli
    /\ IdleThreads

\* A thread enters prove with its own features vector.
ProveCall(t, features) ==
    /\ pc[t] = "idle"
    /\ pc' = [pc EXCEPT ![t] = "check"]
    /\ feat' = [feat EXCEPT ![t] = features]
    /\ res' = [res EXCEPT ![t] = NoResult]
    /\ UNCHANGED <<libVars, cliVars>>

\* if features.len() != 60 { return Err(InvalidInput(..)) }
ProveCheckLen(t) ==
    /\ pc[t] = "check"
    /\ IF Len(feat[t]) # FeatureCount
       THEN /\ res' = [res EXCEPT ![t] =
                         Err(InvalidInput("Expected 60 features, got "
                                            \o ToString(Len(feat[t]))))]
            /\ pc' = [pc EXCEPT ![t] = "done"]
       ELSE /\ res' = res
            /\ pc' = [pc EXCEPT ![t] = "body"]
    /\ UNCHANGED <<feat, libVars, cliVars>>

ProveBody_SharedResult(t) ==
    /\ pc[t] = "body"
    /\ res' = [u \in Threads |-> IF pc[u] = "idle" THEN res[u] ELSE Err(NotImplemented)]
    /\ pc' = [pc EXCEPT ![t] = "done"]
    /\ UNCHANGED <<feat, libVars, cliVars>>

\* Err(ZKMLError::NotImplemented), the last expression of prove.
ProveBody(t) ==
    /\ pc[t] = "body"
    /\ res' = [res EXCEPT ![t] = Err(NotImplemented)]
    /\ pc' = [pc EXCEPT ![t] = "done"]
    /\ UNCHANGED <<feat, libVars, cliVars>>

\* The caller takes the result; the thread may call prove again.
ProveReturn(t) ==
    /\ pc[t] = "done"
    /\ pc' = [pc EXCEPT ![t] = "idle"]
    /\ UNCHANGED <<feat, res, libVars, cliVars>>

NextConc ==
    \/ \E t \in Threads, w \in Witnesses : ProveCall(t, w)
    \/ \E t \in Threads : ProveCheckLen(t)
    \/ \E t \in Threads : ProveBody(t)
    \/ \E t \in Threads : ProveReturn(t)

SpecConc == InitConc /\ [][NextConc]_vars

\* C10: under every interleaving of prove calls on one instance, each call
\* that has finished holds the result the same call returns when run alone,
\* and the instance and its preprocessing are what they were before.
C10_ConcurrentProveIsIsolated ==
    /\ zkml = <<preprocess(new(SharedModel)).self>>
    /\ preprocessCalls = 1
    /\ \A t \in Threads :
          (pc[t] = "done" \/ (pc[t] = "idle" /\ res[t] # NoResult)) =>
              res[t] = prove(zkml[1], feat[t])

C10_Witness ==
    /\ pc[1] = "done"
    /\ Len(feat[1]) = 3
    /\ res[1].variant = "InvalidInput"
    /\ pc[2] = "done"
    /\ Len(feat[2]) = FeatureCount
    /\ res[2] = Err(NotImplemented)

====
